---- MODULE Spec2Model ----
(***************************************************************************)
(* AuthService (session / profile reconciliation over the BaaS client).    *)
(* The remote identity provider, the profiles table, the browser storage   *)
(* and the document's theme class are the state; every static method of    *)
(* AuthService is an action (or, where it suspends on an await that other  *)
(* work can interleave with, a start action and its resumptions).          *)
(***************************************************************************)
EXTENDS Integers, Sequences, FiniteSets, TLC

VARIABLES
    identities,     \* identities that exist at the provider
    session,        \* the provider's active identity, or NoUser
    profiles,       \* the profiles table: user id -> row or NoRow
    localStorage,   \* keys present in window.localStorage
    sessionStorage, \* keys present in window.sessionStorage
    cookies,        \* cookie names visible in document.cookie
    themeClass,     \* theme classes on document.documentElement
    prefersDark,    \* matchMedia('(prefers-color-scheme: dark)').matches
    reloadCalls,    \* window.location.reload() invocations of this page load
    gcu,            \* the getCurrentUser call in flight
    subscribed,     \* the onAuthStateChange listener is registered
    handlers,       \* one record per auth-state event the listener received
    cbLog,          \* the subscriber callback's invocations, in order
    ret             \* the last completed operation and what it did

vars == <<identities, session, profiles, localStorage, sessionStorage, cookies,
          themeClass, prefersDark, reloadCalls, gcu, subscribed, handlers,
          cbLog, ret>>

----------------------------------------------------------------------------
(* Bounds of the model *)

MaxEvents == 2
MaxReloadCalls == 2

----------------------------------------------------------------------------
(* Values *)

Users == {"u1", "u2"}
Names == {"ana"}
Passwords == {"pw"}
NoUser == "nouser"

Temas == {"light", "dark", "auto", "bogus"}
NoTema == "notema"

TokenKey == "supabase.auth.token"
LocalKeys == {TokenKey, "app.settings"}
SessionKeys == {"sb.flow"}
CookieNames == {"sb-access-token"}

NoRow == [id |-> "norow", nome |-> "norow", tema |-> NoTema, stamped |-> FALSE]

Row(u, n, t, s) == [id |-> u, nome |-> n, tema |-> t, stamped |-> s]

\* AuthUser: the provider's user, with the optional profile
AuthUser(u, p) == [user |-> u, profile |-> p]

NullUser == AuthUser(NoUser, NoRow)

\* an error object: thrown values need not be Error instances
Err(m) == [isError |-> TRUE, message |-> m]

NonError == [isError |-> FALSE, message |-> <<>>]

NoErr == [isError |-> FALSE, message |-> <<"none">>]

NotAuthenticated == Err(<<"Usuario", "nao", "autenticado">>)

\* the two needles of the token-error test
RefreshTokenNotFound == <<"refresh_token_not_found">>

InvalidRefreshToken == <<"Invalid", "Refresh", "Token">>

\* messages the provider puts on its errors (words and punctuation as atoms)
TokenMessages ==
    { <<"Invalid", "Refresh", "Token", ":", "Refresh", "Token", "Not", "Found">>,
      <<"AuthApiError", ":", "refresh_token_not_found">> }

OtherMessages ==
    { <<"Invalid", "login", "credentials">>,
      <<"Refresh", "Token", "Invalid">> }

\* String.prototype.includes on atom sequences: needle is a contiguous part
Includes(msg, needle) ==
    \E i \in 0..(Len(msg) - Len(needle)) :
        \A j \in 1..Len(needle) : msg[i + j] = needle[j]

IsTokenErrorLoose(e) ==
    \E k \in 1..Len(e.message) :
        e.message[k] \in {"Refresh", "refresh_token_not_found"}

IsTokenError(e) ==
    \/ Includes(e.message, RefreshTokenNotFound)
    \/ Includes(e.message, InvalidRefreshToken)

----------------------------------------------------------------------------
(* clearAuthAndReload: one try block around the three cleanup steps and    *)
(* the reload, and a catch block that reloads.  t says which steps throw.  *)

Throws == [ls : BOOLEAN, ss : BOOLEAN, ck : BOOLEAN]

NoThrows == [ls |-> FALSE, ss |-> FALSE, ck |-> FALSE]

ClearAuthNoReloadOnThrow(ls, ss, ck, t) ==
    IF t.ls THEN
        [ls |-> ls, ss |-> ss, ck |-> ck, reloads |-> 0,
         trace |-> <<"localStorage.clear!">>]
    ELSE IF t.ss THEN
        [ls |-> {}, ss |-> ss, ck |-> ck, reloads |-> 0,
         trace |-> <<"localStorage.clear", "sessionStorage.clear!">>]
    ELSE IF t.ck THEN
        [ls |-> {}, ss |-> {}, ck |-> ck, reloads |-> 0,
         trace |-> <<"localStorage.clear", "sessionStorage.clear", "cookies!">>]
    ELSE
        [ls |-> {}, ss |-> {}, ck |-> {}, reloads |-> 1,
         trace |-> <<"localStorage.clear", "sessionStorage.clear", "cookies",
                     "reload">>]

ClearAuthKeepsCookies(ls, ss, ck, t) ==
    IF t.ls THEN
        [ls |-> ls, ss |-> ss, ck |-> ck, reloads |-> 1,
         trace |-> <<"localStorage.clear!", "reload">>]
    ELSE IF t.ss THEN
        [ls |-> {}, ss |-> ss, ck |-> ck, reloads |-> 1,
         trace |-> <<"localStorage.clear", "sessionStorage.clear!", "reload">>]
    ELSE IF t.ck THEN
        [ls |-> {}, ss |-> {}, ck |-> ck, reloads |-> 1,
         trace |-> <<"localStorage.clear", "sessionStorage.clear", "cookies!",
                     "reload">>]
    ELSE
        [ls |-> {}, ss |-> {}, ck |-> ck, reloads |-> 1,
         trace |-> <<"localStorage.clear", "sessionStorage.clear", "cookies",
                     "reload">>]

ClearAuth(ls, ss, ck, t) ==
    IF t.ls THEN
        [ls |-> ls, ss |-> ss, ck |-> ck, reloads |-> 1,
         trace |-> <<"localStorage.clear!", "reload">>]
    ELSE IF t.ss THEN
        [ls |-> {}, ss |-> ss, ck |-> ck, reloads |-> 1,
         trace |-> <<"localStorage.clear", "sessionStorage.clear!", "reload">>]
    ELSE IF t.ck THEN
        [ls |-> {}, ss |-> {}, ck |-> ck, reloads |-> 1,
         trace |-> <<"localStorage.clear", "sessionStorage.clear", "cookies!",
                     "reload">>]
    ELSE
        [ls |-> {}, ss |-> {}, ck |-> {}, reloads |-> 1,
         trace |-> <<"localStorage.clear", "sessionStorage.clear", "cookies",
                     "reload">>]

----------------------------------------------------------------------------
(* applyTheme: remove both theme classes, then add the one the name selects *)

ApplyTheme(classes, theme, dark) ==
    LET removed == classes \ {"light", "dark"}
    IN  IF theme = "dark" THEN removed \cup {"dark"}
        ELSE IF theme = "light" THEN removed \cup {"light"}
        ELSE IF theme = "auto" THEN removed \cup {IF dark THEN "dark" ELSE "light"}
        ELSE removed

----------------------------------------------------------------------------
(* The record of a completed operation *)

Ret(op, user, arg, in, out, val, err, trace) ==
    [op |-> op, user |-> user, arg |-> arg, in |-> in, out |-> out,
     val |-> val, err |-> err, trace |-> trace]

NoRet == Ret("none", NoUser, "none", <<>>, "none", NullUser, NoErr, <<>>)

IdleGcu == [pc |-> "idle", user |-> NoUser, resp |-> "none"]

\* The backend outlives the page: it starts empty, or with the account of
\* an earlier visit and its profile row.  Nobody is signed in.
Init ==
    /\ identities \in {{}, {"u1"}}
    /\ session = NoUser
    /\ profiles = [u \in Users |->
                      IF u \in identities THEN Row(u, "ana", "dark", TRUE) ELSE NoRow]
    /\ localStorage = {}
    /\ sessionStorage = {}
    /\ cookies = {}
    /\ themeClass = {}
    /\ prefersDark = FALSE
    /\ reloadCalls = 0
    /\ gcu = IdleGcu
    /\ subscribed = FALSE
    /\ handlers = <<>>
    /\ cbLog = <<>>
    /\ ret = NoRet

----------------------------------------------------------------------------
(* What the remote provider and the data store can answer *)

Resp(kind, user, row, err) == [kind |-> kind, user |-> user, row |-> row, err |-> err]

\* supabase.auth.getUser(): { data: { user }, error }, or a rejection
GetUserResponses ==
    IF session # NoUser THEN
        { Resp("data", session, NoRow, NoErr) }
        \cup { Resp("error", NoUser, NoRow, Err(m)) : m \in OtherMessages }
        \cup { Resp("throw", NoUser, NoRow, NonError) }
    ELSE
        { Resp("data", NoUser, NoRow, NoErr) }
        \cup { Resp("error", NoUser, NoRow, Err(m)) : m \in TokenMessages \cup OtherMessages }
        \cup { Resp("throw", NoUser, NoRow, Err(m)) : m \in TokenMessages \cup OtherMessages }
        \cup { Resp("throw", NoUser, NoRow, NonError) }

\* profiles.select(...).eq('id', u).single(): { data, error }, or a rejection
SelectResponses(u) ==
    (IF profiles[u] # NoRow THEN { Resp("data", u, profiles[u], NoErr) } ELSE {})
    \cup { Resp("error", u, NoRow, Err(<<"PGRST116">>)),
           Resp("throw", u, NoRow, Err(<<"Failed", "to", "fetch">>)) }

\* a provider call that answers { data, error }
Outcomes == {"ok", "error"}

ProviderError == Err(<<"Invalid", "login", "credentials">>)

StoreError == Err(<<"PGRST301">>)

----------------------------------------------------------------------------
(* signUp *)

SignUpInsertAtOther(u, k, nome) ==
    [profiles EXCEPT ![CHOOSE x \in Users : x # k] = Row(u, nome, NoTema, FALSE)]

SignUpInsertAt(u, k, nome) ==
    [profiles EXCEPT ![k] = Row(u, nome, NoTema, FALSE)]

SignUpThrowOnProfileError(u, nome, so, io) ==
    IF so = "error" THEN
        Ret("signUp", u, nome, <<so>>, "raised", NullUser, ProviderError,
            <<"auth.signUp">>)
    ELSE IF so = "ok_nouser" THEN
        Ret("signUp", u, nome, <<so>>, "returned", NullUser, NoErr,
            <<"auth.signUp">>)
    ELSE IF io = "error" THEN
        Ret("signUp", u, nome, <<so, io>>, "raised", NullUser, StoreError,
            <<"auth.signUp", "profiles.insert">>)
    ELSE
        Ret("signUp", u, nome, <<so, io>>, "returned", AuthUser(u, NoRow), NoErr,
            <<"auth.signUp", "profiles.insert">>)

SignUpRet(u, nome, so, io) ==
    IF so = "error" THEN
        Ret("signUp", u, nome, <<so>>, "raised", NullUser, ProviderError,
            <<"auth.signUp">>)
    ELSE IF so = "ok_nouser" THEN
        Ret("signUp", u, nome, <<so>>, "returned", NullUser, NoErr,
            <<"auth.signUp">>)
    ELSE
        Ret("signUp", u, nome, <<so, io>>, "returned", AuthUser(u, NoRow), NoErr,
            <<"auth.signUp", "profiles.insert">>)

SignUp(u, pw, nome, so, io) ==
    /\ so = "ok" => u \notin identities
    /\ io = "ok" => (so = "ok" /\ profiles[u] = NoRow)
    /\ identities' = IF so = "ok" THEN identities \cup {u} ELSE identities
    /\ profiles' = IF so = "ok" /\ io = "ok"
                   THEN SignUpInsertAt(u, u, nome)
                   ELSE profiles
    /\ ret' = SignUpRet(u, nome, so, io)
    /\ UNCHANGED <<session, localStorage, sessionStorage, cookies, themeClass,
                   prefersDark, reloadCalls, gcu, subscribed, handlers, cbLog>>

----------------------------------------------------------------------------
(* signIn *)

SignIn(u, pw, so) ==
    /\ so = "ok" => u \in identities
    /\ session' = IF so = "ok" THEN u ELSE session
    /\ ret' = IF so = "ok"
              THEN Ret("signIn", u, pw, <<so>>, "returned", AuthUser(u, NoRow),
                       NoErr, <<"auth.signInWithPassword">>)
              ELSE Ret("signIn", u, pw, <<so>>, "raised", NullUser,
                       ProviderError, <<"auth.signInWithPassword">>)
    /\ UNCHANGED <<identities, profiles, localStorage, sessionStorage, cookies,
                   themeClass, prefersDark, reloadCalls, gcu, subscribed,
                   handlers, cbLog>>

----------------------------------------------------------------------------
(* signOut: the eviction in its try block, then the remote call.           *)
(* t names the eviction step that throws, or "none".                       *)

EvictionThrows == {"none", "removeItem", "clear"}

SignOutRetRaiseEviction(t, so) ==
    IF t # "none" THEN
        Ret("signOut", session, "none", <<t>>, "raised", NullUser, NonError,
            IF t = "removeItem" THEN <<"localStorage.removeItem!">>
            ELSE <<"localStorage.removeItem", "sessionStorage.clear!">>)
    ELSE
        Ret("signOut", session, "none", <<t, so>>,
            IF so = "ok" THEN "returned" ELSE "raised", NullUser,
            IF so = "ok" THEN NoErr ELSE ProviderError,
            <<"localStorage.removeItem", "sessionStorage.clear", "auth.signOut">>)

SignOutRet(t, so) ==
    Ret("signOut", session, "none", <<t, so>>,
        IF so = "ok" THEN "returned" ELSE "raised", NullUser,
        IF so = "ok" THEN NoErr ELSE ProviderError,
        (IF t = "removeItem" THEN <<"localStorage.removeItem!">>
         ELSE IF t = "clear" THEN <<"localStorage.removeItem", "sessionStorage.clear!">>
         ELSE <<"localStorage.removeItem", "sessionStorage.clear">>)
        \o <<"auth.signOut">>)

SignOut(t, so) ==
    /\ localStorage' = IF t = "removeItem" THEN localStorage
                       ELSE localStorage \ {TokenKey}
    /\ sessionStorage' = IF t = "none" THEN {} ELSE sessionStorage
    /\ ret' = SignOutRet(t, so)
    /\ session' = IF so = "ok" THEN NoUser ELSE session
    /\ UNCHANGED <<identities, profiles, cookies, themeClass, prefersDark,
                   reloadCalls, gcu, subscribed, handlers, cbLog>>

----------------------------------------------------------------------------
(* resetPassword *)

ResetPassword(u, so) ==
    /\ ret' = Ret("resetPassword", u, "none", <<so>>,
                  IF so = "ok" THEN "returned" ELSE "raised", NullUser,
                  IF so = "ok" THEN NoErr ELSE ProviderError,
                  <<"auth.resetPasswordForEmail">>)
    /\ UNCHANGED <<identities, session, profiles, localStorage, sessionStorage,
                   cookies, themeClass, prefersDark, reloadCalls, gcu,
                   subscribed, handlers, cbLog>>

----------------------------------------------------------------------------
(* updateProfile.  upd is the partial update: [nome, tema], a field that   *)
(* the caller left out being Absent.                                       *)

Absent == "absent"

Updates == [nome : Names \cup {Absent}, tema : Temas \cup {Absent}]

UpdatedRow(row, upd) ==
    Row(row.id,
        IF upd.nome = Absent THEN row.nome ELSE upd.nome,
        IF upd.tema = Absent THEN row.tema ELSE upd.tema,
        TRUE)

\* the theme classes after updateProfile, by the answer to the write
UpdateProfileThemeBeforeErrorCheck(upd, gr, wo) ==
    IF gr.kind # "throw" /\ gr.user # NoUser /\ upd.tema # Absent
    THEN ApplyTheme(themeClass, upd.tema, prefersDark)
    ELSE themeClass

UpdateProfileTheme(upd, gr, wo) ==
    IF gr.kind # "throw" /\ gr.user # NoUser /\ wo = "ok" /\ upd.tema # Absent
    THEN ApplyTheme(themeClass, upd.tema, prefersDark)
    ELSE themeClass

\* the calls updateProfile issues, in order
UpdateProfileTraceWriteFirst(gr) == <<"auth.getUser", "profiles.update">>

UpdateProfileTrace(gr) ==
    IF gr.kind = "throw" \/ gr.user = NoUser
    THEN <<"auth.getUser">>
    ELSE <<"auth.getUser", "profiles.update">>

UpdateProfile(upd, gr, wo) ==
    /\ gr \in GetUserResponses
    /\ wo = "ok" => (gr.kind = "data" /\ gr.user # NoUser /\ profiles[gr.user] # NoRow)
    /\ profiles' = IF gr.kind # "throw" /\ gr.user # NoUser /\ wo = "ok"
                   THEN [profiles EXCEPT ![gr.user] = UpdatedRow(@, upd)]
                   ELSE profiles
    /\ themeClass' = UpdateProfileTheme(upd, gr, wo)
    /\ ret' = IF gr.kind = "throw" THEN
                  Ret("updateProfile", NoUser, upd.tema, <<gr.kind>>, "raised",
                      NullUser, gr.err, UpdateProfileTrace(gr))
              ELSE IF gr.user = NoUser THEN
                  Ret("updateProfile", NoUser, upd.tema, <<gr.kind>>, "raised",
                      NullUser, NotAuthenticated, UpdateProfileTrace(gr))
              ELSE IF wo = "error" THEN
                  Ret("updateProfile", gr.user, upd.tema, <<gr.kind, wo>>, "raised",
                      NullUser, StoreError, UpdateProfileTrace(gr))
              ELSE
                  Ret("updateProfile", gr.user, upd.tema, <<gr.kind, wo>>, "returned",
                      AuthUser(gr.user, profiles'[gr.user]), NoErr,
                      UpdateProfileTrace(gr))
    /\ UNCHANGED <<identities, session, localStorage, sessionStorage, cookies,
                   prefersDark, reloadCalls, gcu, subscribed, handlers, cbLog>>

\* applyTheme called by the application itself
ApplyThemeCall(theme) ==
    /\ themeClass' = ApplyTheme(themeClass, theme, prefersDark)
    /\ ret' = Ret("applyTheme", NoUser, theme,
                  <<IF prefersDark THEN "prefersDark" ELSE "prefersLight">>
                  \o (IF "dark" \in themeClass THEN <<"dark">> ELSE <<>>)
                  \o (IF "light" \in themeClass THEN <<"light">> ELSE <<>>),
                  "returned", NullUser, NoErr, <<>>)
    /\ UNCHANGED <<identities, session, profiles, localStorage, sessionStorage,
                   cookies, prefersDark, reloadCalls, gcu, subscribed, handlers,
                   cbLog>>

----------------------------------------------------------------------------
(* clearAuthAndReload called on its own *)

ClearAuthAndReload(t) ==
    /\ reloadCalls < MaxReloadCalls
    /\ LET c == ClearAuth(localStorage, sessionStorage, cookies, t)
       IN  /\ localStorage' = c.ls
           /\ sessionStorage' = c.ss
           /\ cookies' = c.ck
           /\ reloadCalls' = reloadCalls + c.reloads
           /\ ret' = Ret("clearAuthAndReload", NoUser, "none",
                         <<IF t.ls THEN "ls!" ELSE "ls", IF t.ss THEN "ss!" ELSE "ss",
                           IF t.ck THEN "ck!" ELSE "ck">>,
                         "returned", NullUser, NoErr, c.trace)
    /\ UNCHANGED <<identities, session, profiles, themeClass, prefersDark, gcu,
                   subscribed, handlers, cbLog>>

----------------------------------------------------------------------------
(* getCurrentUser: suspended on getUser, then on the profile select *)

\* what getCurrentUser does with the answer of getUser:
\*   "reset"   clearAuthAndReload, then return null
\*   "null"    return null
\*   "profile" go on to fetch the profile
GcuDecisionNoReset(gr) ==
    IF gr.kind = "data" /\ gr.user # NoUser THEN "profile" ELSE "null"

GcuDecision(gr) ==
    IF gr.kind = "error" THEN
        IF IsTokenError(gr.err) THEN "reset" ELSE "null"
    ELSE IF gr.kind = "throw" THEN
        IF gr.err.isError /\ IsTokenError(gr.err) THEN "reset" ELSE "null"
    ELSE IF gr.user = NoUser THEN "null"
    ELSE "profile"

\* what getCurrentUser returns once the profile select has answered
GcuProfileResultNullOnFailure(u, pr) ==
    IF pr.kind = "data" THEN AuthUser(u, pr.row) ELSE NullUser

GcuProfileResult(u, pr) ==
    IF pr.kind = "data" THEN AuthUser(u, pr.row)
    ELSE IF pr.kind = "error" THEN AuthUser(u, NoRow)
    ELSE AuthUser(u, NoRow)

GetCurrentUserStart ==
    /\ gcu.pc = "idle"
    /\ gcu' = [pc |-> "getUser", user |-> NoUser, resp |-> "none"]
    /\ UNCHANGED <<identities, session, profiles, localStorage, sessionStorage,
                   cookies, themeClass, prefersDark, reloadCalls, subscribed,
                   handlers, cbLog, ret>>

GetCurrentUserOnGetUser(gr, t) ==
    /\ gcu.pc = "getUser"
    /\ gr \in GetUserResponses
    /\ LET d == GcuDecision(gr)
           c == ClearAuth(localStorage, sessionStorage, cookies, t)
       IN  /\ d = "reset" => reloadCalls < MaxReloadCalls
           /\ d # "reset" => t = NoThrows
           /\ localStorage' = IF d = "reset" THEN c.ls ELSE localStorage
           /\ sessionStorage' = IF d = "reset" THEN c.ss ELSE sessionStorage
           /\ cookies' = IF d = "reset" THEN c.ck ELSE cookies
           /\ reloadCalls' = IF d = "reset" THEN reloadCalls + c.reloads
                             ELSE reloadCalls
           /\ gcu' = IF d = "profile"
                     THEN [pc |-> "profile", user |-> gr.user, resp |-> gr.kind]
                     ELSE IdleGcu
           /\ ret' = IF d = "profile" THEN ret
                     ELSE Ret("getCurrentUser", NoUser, "none", <<gr.kind>>,
                              "returned", NullUser, gr.err,
                              <<"auth.getUser">> \o (IF d = "reset" THEN c.trace ELSE <<>>))
    /\ UNCHANGED <<identities, session, profiles, themeClass, prefersDark,
                   subscribed, handlers, cbLog>>

GetCurrentUserOnProfileWritesRow(pr) ==
    /\ gcu.pc = "profile"
    /\ pr \in SelectResponses(gcu.user)
    /\ gcu' = IdleGcu
    /\ profiles' = IF pr.kind = "data" /\ pr.row # NoRow
                   THEN [profiles EXCEPT ![gcu.user] =
                            Row(@.id, @.nome, "auto", TRUE)]
                   ELSE profiles
    /\ ret' = Ret("getCurrentUser", gcu.user, "none", <<gcu.resp, pr.kind>>,
                  "returned", GcuProfileResult(gcu.user, pr), NoErr,
                  <<"auth.getUser", "profiles.select">>)
    /\ UNCHANGED <<identities, session, localStorage, sessionStorage,
                   cookies, themeClass, prefersDark, reloadCalls, subscribed,
                   handlers, cbLog>>

GetCurrentUserOnProfileSignsOut(pr) ==
    /\ gcu.pc = "profile"
    /\ pr \in SelectResponses(gcu.user)
    /\ gcu' = IdleGcu
    /\ session' = IF pr.kind = "data" THEN session ELSE NoUser
    /\ ret' = Ret("getCurrentUser", gcu.user, "none", <<gcu.resp, pr.kind>>,
                  "returned", GcuProfileResult(gcu.user, pr), NoErr,
                  <<"auth.getUser", "profiles.select">>)
    /\ UNCHANGED <<identities, profiles, localStorage, sessionStorage,
                   cookies, themeClass, prefersDark, reloadCalls, subscribed,
                   handlers, cbLog>>

GetCurrentUserOnProfile(pr) ==
    /\ gcu.pc = "profile"
    /\ pr \in SelectResponses(gcu.user)
    /\ gcu' = IdleGcu
    /\ ret' = Ret("getCurrentUser", gcu.user, "none", <<gcu.resp, pr.kind>>,
                  "returned", GcuProfileResult(gcu.user, pr), NoErr,
                  <<"auth.getUser", "profiles.select">>)
    /\ UNCHANGED <<identities, session, profiles, localStorage, sessionStorage,
                   cookies, themeClass, prefersDark, reloadCalls, subscribed,
                   handlers, cbLog>>

----------------------------------------------------------------------------
(* onAuthStateChange: the listener, suspended on the profile select when   *)
(* the event carries a session                                             *)

EventKinds == {"SIGNED_IN", "SIGNED_OUT", "TOKEN_REFRESHED"}

\* the (event, session) pairs the provider delivers
EventShapes ==
    ({"SIGNED_IN", "TOKEN_REFRESHED"} \X Users)
    \cup ({"SIGNED_OUT", "TOKEN_REFRESHED"} \X {NoUser})

\* what the listener does on receipt of the event
ListenerDecisionNoReset(kind, u) ==
    IF u # NoUser THEN "fetch" ELSE "null"

ListenerDecision(kind, u) ==
    IF kind = "TOKEN_REFRESHED" /\ u = NoUser THEN "reset"
    ELSE IF u # NoUser THEN "fetch"
    ELSE "null"

Call(ev, val, threw) == [ev |-> ev, val |-> val, threw |-> threw, sub |-> subscribed]

\* the callback invocations of the handler of event ev once the select has
\* answered; th1 and th2 say whether the first and the second invocation throw
ListenerCalls(ev, u, pr, th1, th2) ==
    IF pr.kind = "throw" THEN
        << Call(ev, AuthUser(u, NoRow), th1) >>
    ELSE
        << Call(ev, IF pr.kind = "data" THEN AuthUser(u, pr.row) ELSE AuthUser(u, NoRow),
                th1) >>
        \o (IF th1 THEN << Call(ev, AuthUser(u, NoRow), th2) >> ELSE <<>>)

Subscribe ==
    /\ ~subscribed
    /\ subscribed' = TRUE
    /\ UNCHANGED <<identities, session, profiles, localStorage, sessionStorage,
                   cookies, themeClass, prefersDark, reloadCalls, gcu, handlers,
                   cbLog, ret>>

Unsubscribe ==
    /\ subscribed
    /\ subscribed' = FALSE
    /\ UNCHANGED <<identities, session, profiles, localStorage, sessionStorage,
                   cookies, themeClass, prefersDark, reloadCalls, gcu, handlers,
                   cbLog, ret>>

AuthEvent(kind, u, t, th) ==
    /\ subscribed
    /\ Len(handlers) < MaxEvents
    /\ <<kind, u>> \in EventShapes
    /\ u # NoUser => u \in identities
    /\ LET d == ListenerDecision(kind, u)
           c == ClearAuth(localStorage, sessionStorage, cookies, t)
           ev == Len(handlers) + 1
       IN  /\ d = "reset" => reloadCalls < MaxReloadCalls
           /\ d # "reset" => t = NoThrows
           /\ d # "null" => th = FALSE
           /\ localStorage' = IF d = "reset" THEN c.ls ELSE localStorage
           /\ sessionStorage' = IF d = "reset" THEN c.ss ELSE sessionStorage
           /\ cookies' = IF d = "reset" THEN c.ck ELSE cookies
           /\ reloadCalls' = IF d = "reset" THEN reloadCalls + c.reloads
                             ELSE reloadCalls
           /\ handlers' = Append(handlers,
                  [kind |-> kind, user |-> u,
                   pc |-> IF d = "fetch" THEN "profile"
                          ELSE IF th THEN "rejected" ELSE "done",
                   trace |-> IF d = "reset" THEN c.trace ELSE <<>>])
           /\ cbLog' = IF d = "null" THEN Append(cbLog, Call(ev, NullUser, th))
                       ELSE cbLog
    /\ UNCHANGED <<identities, session, profiles, themeClass, prefersDark, gcu,
                   subscribed, ret>>

HandlerResume(ev, pr, th1, th2) ==
    /\ ev \in 1..Len(handlers)
    /\ handlers[ev].pc = "profile"
    /\ pr \in SelectResponses(handlers[ev].user)
    /\ pr.kind = "throw" => ~th2
    /\ ~th1 => ~th2
    /\ LET calls == ListenerCalls(ev, handlers[ev].user, pr, th1, th2)
       IN  /\ cbLog' = cbLog \o calls
           /\ handlers' = [handlers EXCEPT ![ev].pc =
                  IF calls[Len(calls)].threw THEN "rejected" ELSE "done",
                  ![ev].trace = <<"profiles.select">>]
    /\ themeClass' = IF pr.kind = "data" /\ pr.row.tema # NoTema
                     THEN ApplyTheme(themeClass, pr.row.tema, prefersDark)
                     ELSE themeClass
    /\ UNCHANGED <<identities, session, profiles, localStorage, sessionStorage,
                   cookies, prefersDark, reloadCalls, gcu, subscribed, ret>>

----------------------------------------------------------------------------
(* The environment: the browser and the remote session *)

\* the reload the page asked for takes place: a fresh page
PageLoad ==
    /\ reloadCalls > 0
    /\ reloadCalls' = 0
    /\ gcu' = IdleGcu
    /\ subscribed' = FALSE
    /\ handlers' = <<>>
    /\ cbLog' = <<>>
    /\ themeClass' = {}
    /\ ret' = NoRet
    /\ UNCHANGED <<identities, session, profiles, localStorage, sessionStorage,
                   cookies, prefersDark>>

\* the provider's client or the application stores something locally
StorageWrite ==
    /\ \/ \E k \in LocalKeys \ localStorage :
             /\ localStorage' = localStorage \cup {k}
             /\ UNCHANGED <<sessionStorage, cookies>>
       \/ \E k \in SessionKeys \ sessionStorage :
             /\ sessionStorage' = sessionStorage \cup {k}
             /\ UNCHANGED <<localStorage, cookies>>
       \/ \E k \in CookieNames \ cookies :
             /\ cookies' = cookies \cup {k}
             /\ UNCHANGED <<localStorage, sessionStorage>>
    /\ UNCHANGED <<identities, session, profiles, themeClass, prefersDark,
                   reloadCalls, gcu, subscribed, handlers, cbLog, ret>>

\* the system colour scheme changes
PreferenceChange ==
    /\ prefersDark' = ~prefersDark
    /\ UNCHANGED <<identities, session, profiles, localStorage, sessionStorage,
                   cookies, themeClass, reloadCalls, gcu, subscribed, handlers,
                   cbLog, ret>>

\* the remote session expires or its refresh token is revoked
SessionExpire ==
    /\ session # NoUser
    /\ session' = NoUser
    /\ UNCHANGED <<identities, profiles, localStorage, sessionStorage, cookies,
                   themeClass, prefersDark, reloadCalls, gcu, subscribed,
                   handlers, cbLog, ret>>

----------------------------------------------------------------------------

(* The operations, with their inputs *)

DoSignUp ==
    \E u \in Users, pw \in Passwords, n \in Names,
       so \in {"ok", "ok_nouser", "error"}, io \in Outcomes :
       SignUp(u, pw, n, so, io)

DoSignIn == \E u \in Users, pw \in Passwords, so \in Outcomes : SignIn(u, pw, so)

DoSignOut == \E t \in EvictionThrows, so \in Outcomes : SignOut(t, so)

DoResetPassword == \E u \in Users, so \in Outcomes : ResetPassword(u, so)

DoUpdateProfile ==
    \E upd \in Updates, gr \in GetUserResponses, wo \in Outcomes :
       UpdateProfile(upd, gr, wo)

DoApplyTheme == \E theme \in Temas : ApplyThemeCall(theme)

DoClearAuthAndReload == \E t \in Throws : ClearAuthAndReload(t)

DoGetCurrentUser ==
    \/ GetCurrentUserStart
    \/ \E gr \in GetUserResponses, t \in Throws : GetCurrentUserOnGetUser(gr, t)
    \/ \E u \in Users : \E pr \in SelectResponses(u) : GetCurrentUserOnProfile(pr)

DoListener ==
    \/ Subscribe
    \/ Unsubscribe
    \/ \E e \in EventShapes, t \in Throws, th \in BOOLEAN :
          AuthEvent(e[1], e[2], t, th)
    \/ \E ev \in 1..MaxEvents, u \in Users, th1 \in BOOLEAN, th2 \in BOOLEAN :
          \E pr \in SelectResponses(u) : HandlerResume(ev, pr, th1, th2)

\* registration, login and logout
NextAccount ==
    \/ DoSignUp
    \/ DoSignIn
    \/ DoSignOut
    \/ DoResetPassword
    \/ StorageWrite
    \/ SessionExpire

SpecAccount == Init /\ [][NextAccount]_vars

\* the profile row and the theme
NextProfile ==
    \/ DoSignUp
    \/ DoSignIn
    \/ DoUpdateProfile
    \/ DoApplyTheme
    \/ PreferenceChange
    \/ SessionExpire

SpecProfile == Init /\ [][NextProfile]_vars

\* the current user and the recovery from an invalid token
NextSession ==
    \/ DoSignUp
    \/ DoSignIn
    \/ DoGetCurrentUser
    \/ DoClearAuthAndReload
    \/ StorageWrite
    \/ SessionExpire
    \/ PageLoad

SpecSession == Init /\ [][NextSession]_vars

\* the subscription
NextListener ==
    \/ DoListener
    \/ PageLoad

SpecListener == Init /\ [][NextListener]_vars

\* the two triggers of clearAuthAndReload, side by side
NextReset ==
    \/ GetCurrentUserStart
    \/ \E gr \in GetUserResponses, t \in Throws : GetCurrentUserOnGetUser(gr, t)
    \/ Subscribe
    \/ \E t \in Throws : AuthEvent("TOKEN_REFRESHED", NoUser, t, FALSE)
    \/ StorageWrite
    \/ PageLoad

SpecReset == Init /\ [][NextReset]_vars

\* the session over logins, logouts, expiry and the profile operations
NextState ==
    \/ DoSignUp
    \/ DoSignIn
    \/ DoSignOut
    \/ SessionExpire
    \/ \E tema \in {"light", Absent}, gr \in GetUserResponses, wo \in Outcomes :
          UpdateProfile([nome |-> Absent, tema |-> tema], gr, wo)
    \/ GetCurrentUserStart
    \/ \E gr \in GetUserResponses : GetCurrentUserOnGetUser(gr, NoThrows)
    \/ \E u \in Users : \E pr \in SelectResponses(u) : GetCurrentUserOnProfile(pr)

SpecState == Init /\ [][NextState]_vars

\* every operation beside an updateProfile that sets the theme
NextFrame ==
    \/ DoSignIn
    \/ DoSignOut
    \/ DoResetPassword
    \/ ApplyThemeCall("dark")
    \/ ClearAuthAndReload(NoThrows)
    \/ GetCurrentUserStart
    \/ \E gr \in GetUserResponses : GetCurrentUserOnGetUser(gr, NoThrows)
    \/ \E u \in Users : \E pr \in SelectResponses(u) : GetCurrentUserOnProfile(pr)
    \/ \E gr \in GetUserResponses, wo \in Outcomes :
          UpdateProfile([nome |-> Absent, tema |-> "light"], gr, wo)
    \/ Subscribe
    \/ \E u \in Users : AuthEvent("SIGNED_IN", u, NoThrows, FALSE)
    \/ \E ev \in 1..MaxEvents, u \in Users :
          \E pr \in SelectResponses(u) : HandlerResume(ev, pr, FALSE, FALSE)

SpecFrame == Init /\ [][NextFrame]_vars

Next ==
    \/ NextAccount
    \/ NextProfile
    \/ NextSession
    \/ NextListener

Spec == Init /\ [][Next]_vars

----------------------------------------------------------------------------
(* Properties *)

Last(q) == q[Len(q)]

\* the callback invocations made for event ev
CallsOf(ev) == {k \in 1..Len(cbLog) : cbLog[k].ev = ev}

\* C1: whenever the provider's signUp succeeds, signUp returns the provider's
\* data and raises nothing, whether profiles.insert succeeds or returns an error
C1_RegisterSurvivesProfileError ==
    (ret.op = "signUp" /\ ret.in[1] # "error") =>
        /\ ret.out = "returned"
        /\ ret.err = NoErr
        /\ ret.val = IF ret.in[1] = "ok" THEN AuthUser(ret.user, NoRow) ELSE NullUser

C1_Witness ==
    /\ ret.op = "signUp"
    /\ ret.in = <<"ok", "error">>
    /\ ret.out = "returned"
    /\ ret.user \in identities
    /\ profiles[ret.user] = NoRow

\* C2: a getUser error, returned or thrown, whose message contains "Invalid
\* Refresh Token" or "refresh_token_not_found" makes getCurrentUser run
\* clearAuthAndReload up to the reload and return null; it raises nothing
C2_TokenErrorResets ==
    (/\ ret.op = "getCurrentUser"
     /\ ret.in[1] \in {"error", "throw"}
     /\ ret.err.message \in TokenMessages) =>
        /\ ret.out = "returned"
        /\ ret.val = NullUser
        /\ Len(ret.trace) > 1
        /\ ret.trace[2] \in {"localStorage.clear", "localStorage.clear!"}
        /\ Last(ret.trace) = "reload"
        /\ reloadCalls >= 1

C2_Witness ==
    /\ ret.op = "getCurrentUser"
    /\ ret.in = <<"error">>
    /\ ret.err.message = <<"AuthApiError", ":", "refresh_token_not_found">>
    /\ ret.val = NullUser
    /\ Last(ret.trace) = "reload"
    /\ localStorage = {}

\* C3: with an identity from getUser and a profile select that returns an
\* error or throws, getCurrentUser returns that identity with no profile
C3_ProfileFailureKeepsIdentity ==
    (/\ ret.op = "getCurrentUser"
     /\ Len(ret.in) = 2
     /\ ret.in[2] \in {"error", "throw"}) =>
        /\ ret.out = "returned"
        /\ ret.user \in Users
        /\ ret.val = AuthUser(ret.user, NoRow)
        /\ ret.val # NullUser

C3_Witness ==
    /\ ret.op = "getCurrentUser"
    /\ ret.in = <<"data", "throw">>
    /\ ret.val = AuthUser("u1", NoRow)
    /\ profiles["u1"] # NoRow

C5_CallbackExactlyOnce ==
    \A ev \in 1..Len(handlers) :
        LET h == handlers[ev]
        IN  /\ h.pc = "profile" => CallsOf(ev) = {}
            /\ (h.pc # "profile" /\ h.user # NoUser) =>
                   /\ Cardinality(CallsOf(ev)) = 1
                   /\ \A k \in CallsOf(ev) :
                          /\ cbLog[k].val.user = h.user
                          /\ cbLog[k].val.profile \in {profiles[h.user], NoRow}
            /\ (h.user = NoUser /\ h.kind # "TOKEN_REFRESHED") =>
                   /\ Cardinality(CallsOf(ev)) = 1
                   /\ \A k \in CallsOf(ev) : cbLog[k].val = NullUser
                   /\ h.trace = <<>>

\* C6: clearAuthAndReload invokes window.location.reload as its last step,
\* once, whichever of its cleanup steps throw
C6_ReloadAlwaysReached ==
    ret.op = "clearAuthAndReload" =>
        /\ ret.out = "returned"
        /\ Len(ret.trace) >= 2
        /\ Last(ret.trace) = "reload"
        /\ Cardinality({k \in 1..Len(ret.trace) : ret.trace[k] = "reload"}) = 1
        /\ reloadCalls >= 1

C6_Witness ==
    /\ ret.op = "clearAuthAndReload"
    /\ ret.in = <<"ls!", "ss!", "ck!">>
    /\ Last(ret.trace) = "reload"
    /\ localStorage # {}
    /\ reloadCalls = 1

\* the theme classes the document had when applyTheme was called
ClassesBefore(r) == {c \in {"light", "dark"} : \E k \in 2..Len(r.in) : r.in[k] = c}

\* C7: applyTheme("auto") sets dark when the system prefers dark and light
\* otherwise, "dark" and "light" set that class, and any other name leaves
\* the theme class as it was
C7_ApplyThemeSelects ==
    ret.op = "applyTheme" =>
        themeClass =
            IF ret.arg \in {"dark", "light"} THEN {ret.arg}
            ELSE IF ret.arg = "auto"
                 THEN {IF ret.in[1] = "prefersDark" THEN "dark" ELSE "light"}
                 ELSE ClassesBefore(ret)

\* C8: an updateProfile that carries a supported theme and whose write
\* succeeds leaves the document with that theme when it returns; when the
\* write fails it raises the error and leaves the theme and the rows unchanged
C8_ThemeFollowsWrite ==
    [][(/\ ret'.op = "updateProfile"
        /\ <<ret, themeClass, profiles>>' # <<ret, themeClass, profiles>>
        /\ Len(ret'.in) = 2) =>
           /\ ret'.in[2] = "ok" =>
                  /\ ret'.out = "returned"
                  /\ ret'.arg \in {"light", "dark"} => themeClass' = {ret'.arg}
                  /\ ret'.arg = "auto" =>
                         themeClass' = {IF prefersDark THEN "dark" ELSE "light"}
           /\ ret'.in[2] = "error" =>
                  /\ ret'.out = "raised"
                  /\ ret'.err = StoreError
                  /\ themeClass' = themeClass
                  /\ profiles' = profiles]_vars

C8_Witness ==
    /\ ret.op = "updateProfile"
    /\ ret.out = "returned"
    /\ ret.arg = "dark"
    /\ themeClass = {"dark"}
    /\ ret.val.profile.tema = "dark"

\* C9: a TOKEN_REFRESHED event without session runs clearAuthAndReload up to
\* the reload, and the callback is never invoked for it
C9_TokenRefreshedWithoutSession ==
    \A ev \in 1..Len(handlers) :
        (handlers[ev].kind = "TOKEN_REFRESHED" /\ handlers[ev].user = NoUser) =>
            /\ Len(handlers[ev].trace) >= 2
            /\ Last(handlers[ev].trace) = "reload"
            /\ reloadCalls >= 1
            /\ CallsOf(ev) = {}

C9_Witness ==
    /\ Len(handlers) = 2
    /\ handlers[1].kind = "SIGNED_OUT"
    /\ handlers[2].kind = "TOKEN_REFRESHED"
    /\ handlers[2].user = NoUser
    /\ Last(handlers[2].trace) = "reload"
    /\ Len(cbLog) = 1

\* C10: signOut evicts the local cache first and then always issues the
\* remote sign-out, also when the eviction throws; it raises exactly when the
\* remote call returns an error, and then that error
C10_LogoutFailsOnlyRemotely ==
    ret.op = "signOut" =>
        /\ Len(ret.trace) >= 2
        /\ ret.trace[1] \in {"localStorage.removeItem", "localStorage.removeItem!"}
        /\ Last(ret.trace) = "auth.signOut"
        /\ Len(ret.in) = 2
        /\ (ret.out = "raised") <=> (ret.in[2] = "error")
        /\ ret.out = "raised" => ret.err = ProviderError
        /\ ret.out \in {"raised", "returned"}

C10_Witness ==
    /\ ret.op = "signOut"
    /\ ret.in = <<"removeItem", "ok">>
    /\ ret.out = "returned"
    /\ Last(ret.trace) = "auth.signOut"
    /\ TokenKey \in localStorage
    /\ session = NoUser

\* C11: when getUser answers with an error that is no token error, or with
\* no user, getCurrentUser returns null, calls nothing but getUser, and leaves
\* the local storage, the cookies and the page alone; and whatever the
\* provider and the data store answer, getCurrentUser returns and never raises
C11_OtherErrorsReturnNull ==
    [][/\ (/\ gcu.pc = "getUser"
           /\ gcu'.pc = "idle"
           /\ ret'.op = "getCurrentUser"
           /\ ret'.err.message \notin TokenMessages) =>
              /\ ret'.out = "returned"
              /\ ret'.val = NullUser
              /\ ret'.trace = <<"auth.getUser">>
              /\ UNCHANGED <<localStorage, sessionStorage, cookies, reloadCalls>>
       /\ ret'.op = "getCurrentUser" =>
              /\ ret'.out = "returned"
              /\ ret'.val = NullUser \/ ret'.val.user \in Users]_vars

C11_Witness ==
    /\ ret.op = "getCurrentUser"
    /\ ret.in = <<"error">>
    /\ ret.err.message = <<"Refresh", "Token", "Invalid">>
    /\ ret.val = NullUser
    /\ ret.trace = <<"auth.getUser">>
    /\ TokenKey \in localStorage
    /\ reloadCalls = 0

\* the cleanup steps that a call attempted, throwing or not
Attempted(trace, step) ==
    \E k \in 1..Len(trace) : trace[k] \in {step, step \o "!"}

\* C12: in clearAuthAndReload every cleanup step is attempted before the
\* reload, also when an earlier step throws
C12_EveryCleanupStepRuns ==
    ret.op = "clearAuthAndReload" =>
        /\ Attempted(ret.trace, "localStorage.clear")
        /\ Attempted(ret.trace, "sessionStorage.clear")
        /\ Attempted(ret.trace, "cookies")
        /\ Last(ret.trace) = "reload"

\* the calls made by the step that has just run clearAuthAndReload
ResetTrace ==
    IF Len(handlers') > Len(handlers) THEN Last(handlers').trace ELSE ret'.trace

Done(trace, step) == \E k \in 1..Len(trace) : trace[k] = step

\* C13: whichever of getCurrentUser and the listener triggers it, in whatever
\* order, and whether or not a reload has already begun, clearAuthAndReload
\* empties what its cleanup steps reach, adds nothing and ends with the
\* reload; run on storage that is already cleared it changes nothing, so two
\* triggers leave the state one trigger leaves (all cleared, reload begun)
C13_ResetIdempotent ==
    [][reloadCalls' > reloadCalls =>
           /\ localStorage' =
                  IF Done(ResetTrace, "localStorage.clear") THEN {} ELSE localStorage
           /\ sessionStorage' =
                  IF Done(ResetTrace, "sessionStorage.clear") THEN {} ELSE sessionStorage
           /\ cookies' = IF Done(ResetTrace, "cookies") THEN {} ELSE cookies
           /\ Last(ResetTrace) = "reload"
           /\ reloadCalls' = reloadCalls + 1
           /\ (localStorage = {} /\ sessionStorage = {} /\ cookies = {}) =>
                  UNCHANGED <<localStorage, sessionStorage, cookies>>]_vars

C13_Witness ==
    /\ reloadCalls = 2
    /\ ret.op = "getCurrentUser"
    /\ Last(ret.trace) = "reload"
    /\ \E ev \in 1..Len(handlers) :
          /\ handlers[ev].kind = "TOKEN_REFRESHED"
          /\ handlers[ev].user = NoUser
          /\ Last(handlers[ev].trace) = "reload"
    /\ localStorage = {}
    /\ sessionStorage = {}
    /\ cookies = {}

\* C14: the session goes from no user to a user only in a signIn that
\* returns, and from a user to no user only in a signOut that returns or when
\* the provider invalidates it; the steps of getCurrentUser and updateProfile,
\* whether the profile is fetched, absent, or its fetch or write fails, leave
\* the session as it is
C14_SessionTransitions ==
    [][/\ (session' # NoUser /\ session' # session) =>
              /\ ret'.op = "signIn"
              /\ ret'.out = "returned"
              /\ ret'.user = session'
              /\ UNCHANGED <<gcu, profiles, handlers, cbLog>>
       /\ (session # NoUser /\ session' = NoUser) =>
              \/ /\ ret'.op = "signOut"
                 /\ ret'.out = "returned"
                 /\ UNCHANGED <<gcu, profiles, handlers, cbLog>>
              \/ UNCHANGED <<identities, profiles, localStorage, sessionStorage,
                             cookies, themeClass, prefersDark, reloadCalls, gcu,
                             subscribed, handlers, cbLog, ret>>
       /\ (\/ gcu' # gcu
           \/ profiles' # profiles
           \/ (ret' # ret /\ ret'.op \in {"updateProfile", "getCurrentUser"})) =>
              session' = session]_vars

C14_Witness ==
    /\ ret.op = "getCurrentUser"
    /\ ret.in = <<"data", "error">>
    /\ ret.val = AuthUser("u2", NoRow)
    /\ profiles["u2"] = NoRow
    /\ session = "u2"

\* C15: a profile row changes only in an updateProfile that returns, and then
\* only the caller's own row; signIn, signOut, getCurrentUser, applyTheme,
\* resetPassword, clearAuthAndReload and the listener leave every row as it is
C15_ProfileFrame ==
    [][/\ \A u \in Users : profiles'[u] # profiles[u] =>
              /\ ret'.op = "updateProfile"
              /\ ret'.out = "returned"
              /\ ret'.user = u
              /\ profiles[u] # NoRow
              /\ UNCHANGED <<gcu, handlers, cbLog, session, reloadCalls>>
       /\ (\/ gcu' # gcu
           \/ handlers' # handlers
           \/ cbLog' # cbLog
           \/ session' # session
           \/ reloadCalls' # reloadCalls
           \/ (ret' # ret /\ ret'.op \in {"signIn", "signOut", "getCurrentUser",
                                          "applyTheme", "resetPassword",
                                          "clearAuthAndReload"})) =>
              profiles' = profiles]_vars

C15_Witness ==
    /\ profiles["u1"] = Row("u1", "ana", "light", TRUE)
    /\ \E k \in 1..Len(cbLog) : cbLog[k].val = AuthUser("u1", profiles["u1"])
    /\ reloadCalls > 0
    /\ ret.op = "signOut"
    /\ ret.out = "returned"

C17_CallbacksFollowEventOrder ==
    /\ \A j \in 1..Len(cbLog) : \A k \in j..Len(cbLog) : cbLog[j].ev <= cbLog[k].ev
    /\ (/\ Len(handlers) > 0
        /\ Last(handlers).kind = "SIGNED_OUT"
        /\ Last(handlers).user = NoUser) =>
           /\ Len(cbLog) > 0
           /\ Last(cbLog).val = NullUser

\* C18: every invocation of the callback happens while the subscription is
\* in place, none after unsubscribe
C18_NoCallAfterUnsubscribe ==
    \A k \in 1..Len(cbLog) : cbLog[k].sub

====
